---- MODULE Spec2Model ----
(***************************************************************************)
(* State-machine model of the MimicWX adapter (src/adapter/MimicWX.js):    *)
(* the WebSocket connection manager (load / connectWs / initBot), the      *)
(* inbound path (onMessage / parseMsgContent) and the outbound composer    *)
(* (sendMsgSmart / sendText / sendImage).                                  *)
(*                                                                         *)
(* JavaScript strings are modelled as sequences of glyphs (each glyph a    *)
(* TLA+ string); the empty sequence stands for both "" and undefined,      *)
(* which are both falsy in the source.  Chinese literals of the source are *)
(* written as ASCII glyphs and named after the line that holds them.       *)
(***************************************************************************)
EXTENDS Naturals, Integers, Sequences, FiniteSets, Bags, TLC

VARIABLES
    loaded,       \* load() has been called
    socks,        \* every WebSocket created so far, in creation order; this.ws is the last
    failures,     \* number of connectWs calls whose constructor threw
    timers,       \* bag of pending setTimeout callbacks
    polls,        \* bag of initBot activations suspended at an await
    connected,    \* this.connected
    registered,   \* Bot[self_id] is defined
    fl,           \* Bot[self_id].fl
    gl,           \* Bot[self_id].gl
    inUin,        \* Bot.uin includes self_id
    backend,      \* environment: what GET /status answers now
    step,         \* history: the operation performed by the last step, with its input
    out,          \* host events emitted (Bot.em) by the last step
    calls,        \* outbound: the sendMsgSmart invocations in progress
    sends         \* outbound: log of calls of the send primitives

connVars == <<loaded, socks, failures, timers, polls, connected, registered, fl, gl, inUin, backend>>
vars     == <<loaded, socks, failures, timers, polls, connected, registered, fl, gl, inUin, backend, step, out,
              calls, sends>>

-----------------------------------------------------------------------------
(* Bounds of the model *)

MaxAttempts == 3      \* connectWs calls explored
MaxSegs == 3          \* longest segment array drawn for an outbound message

-----------------------------------------------------------------------------
(* Program constants *)

RECONNECT_INTERVAL == 5000
POLL_INTERVAL == 10000

Marker == "@chatroom"
SelfId == "MimicWX"

\* the absent / empty string
Absent == <<>>

\* the value undefined where it has to be told from the empty string
Undefined == <<"<undefined>">>

\* a || b on strings
Or(a, b) == IF a \notin {Absent, Undefined} THEN a ELSE b

\* s.includes(m): the glyph m occurs in s
Includes(s, m) == \E i \in DOMAIN s : s[i] = m

-----------------------------------------------------------------------------
(* Identifiers and names used as inputs *)

U1 == <<"wxid_a">>
U2 == <<"wxid_b">>
G1 == <<"room1", "@chatroom">>

NameAl   == <<"Al">>
NameBo   == <<"Bo">>
NameRoom == <<"Room">>

\* answers of GET /status: the request fails, another status, the sentinel
StatusLoggedIn == "logged_in"
StatusWaiting  == "waiting_login"
BackendStates  == {"down", StatusWaiting, StatusLoggedIn}

-----------------------------------------------------------------------------
(* Maps (JavaScript Map): functions over the set of present keys *)

EmptyMap == [k \in {} |-> Absent]

\* mutant: the map is replaced by the one entry
MapReset(m, k, v) == [x \in {k} |-> v]

MapSet(m, k, v) == [x \in (DOMAIN m) \cup {k} |-> IF x = k THEN v ELSE m[x]]

-----------------------------------------------------------------------------
(* parseMsgContent: backend parsed payload -> segments + display text *)

\* data?.k : the field when present, undefined otherwise
Field(data, k) == IF k \in DOMAIN data THEN data[k] ELSE Absent

NoData == [k \in {} |-> Absent]

\* a parsed payload; present = FALSE is a frame without "parsed"
Parsed(t, d) == [present |-> TRUE, type |-> t, data |-> d]
NoParsed == [present |-> FALSE, type |-> "", data |-> NoData]

TextSeg(t) == [type |-> "text", text |-> t]

\* mutant: the seconds form starts above one second
VoiceLabelAbove(data) ==
    IF "duration_ms" \notin DOMAIN data THEN <<"[voice]">>
    ELSE LET ms == data.duration_ms IN
         IF ms > 1000 THEN <<"[voice ", ToString(ms \div 1000), "s]">>
         ELSE IF ms > 0 THEN <<"[voice ", ToString(ms), "ms]">>
         ELSE <<"[voice]">>

\* line 48: the voice label; an absent duration compares false both times
VoiceLabel(data) ==
    IF "duration_ms" \notin DOMAIN data THEN <<"[voice]">>
    ELSE LET ms == data.duration_ms IN
         IF ms >= 1000 THEN <<"[voice ", ToString(ms \div 1000), "s]">>
         ELSE IF ms > 0 THEN <<"[voice ", ToString(ms), "ms]">>
         ELSE <<"[voice]">>

Single(label) == [segments |-> <<TextSeg(label)>>, display |-> label]

parseMsgContent(parsed, rawContent) ==
    IF ~parsed.present \/ parsed.type = "" THEN Single(Or(rawContent, Absent))
    ELSE CASE parsed.type = "Text"   -> Single(Or(Field(parsed.data, "text"), rawContent))
           [] parsed.type = "Image"  -> Single(<<"[image]">>)
           [] parsed.type = "Voice"  -> Single(VoiceLabel(parsed.data))
           [] parsed.type = "Video"  -> Single(<<"[video]">>)
           [] parsed.type = "Emoji"  -> Single(<<"[emoji]">>)
           [] parsed.type = "App"    ->
                Single(<<"[link] ">> \o Or(Field(parsed.data, "title"),
                                           Or(Field(parsed.data, "desc"), <<"link">>)))
           [] parsed.type = "System" -> Single(Or(Field(parsed.data, "text"), rawContent))
           [] OTHER                  -> Single(Or(rawContent, Absent))

-----------------------------------------------------------------------------
(* initBot, lines 145-162: friend and group maps built from GET /contacts *)

Contact(u, w, d, r) == [username |-> u, wxid |-> w, display_name |-> d, remark_name |-> r]

ContactId(c) == Or(c.username, Or(c.wxid, c.display_name))

FriendInfo(c) ==
    [user_id   |-> ContactId(c),
     nickname  |-> Or(c.display_name, c.username),
     user_name |-> c.username,
     remark    |-> Or(c.remark_name, Absent)]

GroupInfo(id, name) == [group_id |-> id, group_name |-> name]

RECURSIVE BuildMaps(_, _, _)
BuildMaps(contacts, f, g) ==
    IF contacts = <<>> THEN [fl |-> f, gl |-> g]
    ELSE LET c  == Head(contacts)
             id == ContactId(c)
         IN  IF id # Absent /\ Includes(id, Marker)
             THEN BuildMaps(Tail(contacts), f, MapSet(g, id, GroupInfo(id, FriendInfo(c).nickname)))
             ELSE IF id # Absent
             THEN BuildMaps(Tail(contacts), MapSet(f, id, FriendInfo(c)), g)
             ELSE BuildMaps(Tail(contacts), f, g)

\* contact lists the backend may answer
Snapshots ==
    { <<>>,
      << Contact(U1, Absent, NameAl, Absent), Contact(G1, Absent, NameRoom, Absent) >>,
      << Contact(Absent, U2, Absent, NameBo), Contact(Absent, Absent, Absent, Absent),
         Contact(U1, Absent, Absent, Absent) >> }

-----------------------------------------------------------------------------
(* onMessage, lines 203-295 *)

\* line 197: { self_id, bot: Bot[self_id] }; bot is FALSE when Bot[self_id] is undefined
ConnectEvent(bot, f, g) ==
    [type |-> "connect", self_id |-> SelfId, bot |-> bot, fl |-> f, gl |-> g]

\* mutant: the envelope is classified by the sender, not by the chat
DbEventBySender(data, bot) ==
    LET user_id  == Or(data.talker, data.chat)
        isGroup  == user_id # Absent /\ Includes(user_id, Marker)
        parsedOut == parseMsgContent(data.parsed, data.content)
    IN  [type        |-> IF isGroup THEN "message.group" ELSE "message.private",
         bot         |-> bot,
         user_id     |-> user_id,
         group_id    |-> IF isGroup THEN data.chat ELSE Absent,
         group_name  |-> IF isGroup THEN data.chat_display ELSE Absent,
         nickname    |-> Or(data.talker_display, data.talker),
         card        |-> data.talker_display,
         message     |-> parsedOut.segments,
         raw_message |-> parsedOut.display,
         replyTo     |-> IF isGroup THEN data.chat_display
                         ELSE Or(data.talker_display, data.talker)]

\* the envelope of a db_message, lines 232-252
DbEvent(data, bot) ==
    LET isGroup  == data.chat # Absent /\ Includes(data.chat, Marker)
        user_id  == Or(data.talker, data.chat)
        parsedOut == parseMsgContent(data.parsed, data.content)
    IN  [type        |-> IF isGroup THEN "message.group" ELSE "message.private",
         bot         |-> bot,
         user_id     |-> user_id,
         group_id    |-> IF isGroup THEN data.chat ELSE Absent,
         group_name  |-> IF isGroup THEN data.chat_display ELSE Absent,
         nickname    |-> Or(data.talker_display, data.talker),
         card        |-> data.talker_display,
         message     |-> parsedOut.segments,
         raw_message |-> parsedOut.display,
         replyTo     |-> IF isGroup THEN data.chat_display
                         ELSE Or(data.talker_display, data.talker)]

\* the envelope of a listen_message, lines 267-283
ListenEvent(data, bot) ==
    [type        |-> "message.private",
     bot         |-> bot,
     user_id     |-> Or(data.sender, data.from),
     group_id    |-> Absent,
     group_name  |-> Absent,
     nickname    |-> Or(data.sender, data.from),
     card        |-> Absent,
     message     |-> <<TextSeg(data.content)>>,
     raw_message |-> data.content,
     replyTo     |-> data.from]

\* mutant: the sender is stored as a friend without the marker test of line 223
DbUpsertNoGuard(data, bot, f, g) ==
    LET isGroup == data.chat # Absent /\ Includes(data.chat, Marker)
        user_id == Or(data.talker, data.chat)
        g1 == IF bot /\ isGroup /\ data.chat_display # Absent
              THEN MapSet(g, data.chat, GroupInfo(data.chat, data.chat_display))
              ELSE g
        f1 == IF bot /\ user_id # Absent
              THEN MapSet(f, user_id,
                          [user_id   |-> user_id,
                           nickname  |-> Or(data.talker_display, user_id),
                           user_name |-> user_id,
                           remark    |-> Absent])
              ELSE f
    IN  [fl |-> f1, gl |-> g1]

\* lines 216-228: the maps after the dynamic update of a db_message
DbUpsert(data, bot, f, g) ==
    LET isGroup == data.chat # Absent /\ Includes(data.chat, Marker)
        user_id == Or(data.talker, data.chat)
        g1 == IF bot /\ isGroup /\ data.chat_display # Absent
              THEN MapSet(g, data.chat, GroupInfo(data.chat, data.chat_display))
              ELSE g
        f1 == IF bot /\ user_id # Absent /\ ~Includes(user_id, Marker)
              THEN MapSet(f, user_id,
                          [user_id   |-> user_id,
                           nickname  |-> Or(data.talker_display, user_id),
                           user_name |-> user_id,
                           remark    |-> Absent])
              ELSE f
    IN  [fl |-> f1, gl |-> g1]

Unchanged(f, g) == [fl |-> f, gl |-> g, out |-> <<>>]

\* mutant: onMessage without the is_self check of line 208
onMessageNoSelfCheck(data, conn, bot, f, g) ==
    IF ~conn THEN Unchanged(f, g)
    ELSE IF data.type = "db_message" THEN
        LET d == DbUpsert(data, bot, f, g)
        IN  [fl |-> d.fl, gl |-> d.gl, out |-> <<DbEvent(data, bot)>>]
    ELSE IF data.type = "listen_message" THEN
        [fl |-> f, gl |-> g, out |-> <<ListenEvent(data, bot)>>]
    ELSE Unchanged(f, g)

\* mutant: onMessage without the connected test of line 204
onMessageAlways(data, conn, bot, f, g) ==
    IF data.type = "db_message" THEN
        IF data.is_self THEN Unchanged(f, g)
        ELSE LET d == DbUpsert(data, bot, f, g)
             IN  [fl |-> d.fl, gl |-> d.gl, out |-> <<DbEvent(data, bot)>>]
    ELSE IF data.type = "listen_message" THEN
        [fl |-> f, gl |-> g, out |-> <<ListenEvent(data, bot)>>]
    ELSE Unchanged(f, g)

\* onMessage(data) run with the given flag, registration and maps:
\* the maps afterwards and the events emitted
onMessage(data, conn, bot, f, g) ==
    IF ~conn THEN Unchanged(f, g)
    ELSE IF data.type = "db_message" THEN
        IF data.is_self THEN Unchanged(f, g)
        ELSE LET d == DbUpsert(data, bot, f, g)
             IN  [fl |-> d.fl, gl |-> d.gl, out |-> <<DbEvent(data, bot)>>]
    ELSE IF data.type = "listen_message" THEN
        [fl |-> f, gl |-> g, out |-> <<ListenEvent(data, bot)>>]
    ELSE Unchanged(f, g)

\* the "message" handler, lines 92-99: a frame that does not parse is logged
OnFrame(raw, conn, bot, f, g) ==
    IF raw.json THEN onMessage(raw.data, conn, bot, f, g)
    ELSE Unchanged(f, g)

-----------------------------------------------------------------------------
(* Outbound messages: the values sendMsgSmart accepts *)

\* whitespace glyphs removed by String.prototype.trim; U+2005 is the separator
\* appended after a mention (line 321)
Space == " "
MentionSep == "U+2005"
WhiteSpace == {Space, MentionSep}

RECURSIVE TrimStart(_)
TrimStart(t) == IF t # <<>> /\ Head(t) \in WhiteSpace THEN TrimStart(Tail(t)) ELSE t

RECURSIVE TrimEnd(_)
TrimEnd(t) ==
    IF t # <<>> /\ t[Len(t)] \in WhiteSpace THEN TrimEnd(SubSeq(t, 1, Len(t) - 1)) ELSE t

\* s.trim()
Trim(t) == TrimEnd(TrimStart(t))

\* parts.join("")
RECURSIVE Join(_)
Join(parts) == IF parts = <<>> THEN <<>> ELSE Head(parts) \o Join(Tail(parts))

\* image references: a Buffer, an object (with or without a Buffer in .buffer),
\* a string, or nothing
NoRef == [kind |-> "none"]
BufferRef(b) == [kind |-> "buffer", bytes |-> b]
ObjectRef(hasBuffer, b) == [kind |-> "object", hasBuffer |-> hasBuffer, bytes |-> b]
StringRef(t) == [kind |-> "string", str |-> t]

\* truthiness of a reference (line 324-325)
Truthy(ref) == ref.kind # "none" /\ (ref.kind = "string" => ref.str # <<>>)

\* a || b on references
OrRef(a, b) == IF Truthy(a) THEN a ELSE b

\* segments
RawString(t) == [type |-> "<string>", text |-> t]
SegText(t, dt) == [type |-> "text", text |-> t, dtext |-> dt]
SegAt(qq, dqq) == [type |-> "at", qq |-> qq, dqq |-> dqq]
SegImage(file, url, dfile, durl) ==
    [type |-> "image", file |-> file, url |-> url, dfile |-> dfile, durl |-> durl]
SegPlain(type) == [type |-> type]
SegNode(isArray, data) == [type |-> "node", isArray |-> isArray, data |-> data]

\* messages: a string, one segment, or an array of segments; NoMsg is an absent field
MsgString(t) == [form |-> "string", text |-> t]
MsgObject(seg) == [form |-> "object", seg |-> seg]
MsgArray(segs) == [form |-> "array", segs |-> segs]
NoMsg == [form |-> "none"]

\* a forwarded node: { message, content }
Node(message, content) == [message |-> message, content |-> content]

MsgTruthy(m) == m.form # "none" /\ (m.form = "string" => m.text # <<>>)

\* line 336: node.message || node.content || node ; a node with neither is
\* passed on itself, an object without type
InnerMessage(node) ==
    IF MsgTruthy(node.message) THEN node.message
    ELSE IF MsgTruthy(node.content) THEN node.content
    ELSE MsgObject(SegPlain("<node>"))

-----------------------------------------------------------------------------
(* sendMsgSmart, lines 304-352: the loop over the segments *)

\* lines 317-321: the text of a mention, resolved in the friends map
MentionText(seg, bot, f) ==
    LET uid  == Or(seg.qq, Or(seg.dqq, Absent))
        name == IF bot /\ uid \in DOMAIN f
                THEN Or(f[uid].nickname, Or(f[uid].user_name, uid))
                ELSE uid
    IN  <<"@">> \o name \o <<MentionSep>>

\* line 324: the reference of an image segment
ImageFile(seg) == OrRef(seg.file, OrRef(seg.url, OrRef(seg.dfile, seg.durl)))

\* mutant: a part is put in front of the parts collected so far
PushFront(list, x) == <<x>> \o list

\* Array.prototype.push
Push(list, x) == Append(list, x)

\* mutant: a face segment is skipped like a reply
CollectNoFace(seg, parts, imgs, bot, f) ==
    CASE seg.type = "<string>" -> [parts |-> Push(parts, seg.text), imgs |-> imgs]
      [] seg.type = "text" ->
           [parts |-> Push(parts, Or(seg.text, Or(seg.dtext, Absent))), imgs |-> imgs]
      [] seg.type = "at" -> [parts |-> Push(parts, MentionText(seg, bot, f)), imgs |-> imgs]
      [] seg.type = "image" ->
           [parts |-> parts,
            imgs  |-> IF Truthy(ImageFile(seg)) THEN Push(imgs, ImageFile(seg)) ELSE imgs]
      [] seg.type \in {"record", "video"} ->
           [parts |-> Push(parts, <<"[unsupported media]">>), imgs |-> imgs]
      [] seg.type \in {"face", "reply", "button", "node"} -> [parts |-> parts, imgs |-> imgs]
      [] OTHER -> [parts |-> Push(parts, <<"<Bot.String>">>), imgs |-> imgs]

\* one iteration of the loop for a segment that is not an expanded node:
\* the text parts and image tasks afterwards
Collect(seg, parts, imgs, bot, f) ==
    CASE seg.type = "<string>" -> [parts |-> Push(parts, seg.text), imgs |-> imgs]
      [] seg.type = "text" ->
           [parts |-> Push(parts, Or(seg.text, Or(seg.dtext, Absent))), imgs |-> imgs]
      [] seg.type = "at" -> [parts |-> Push(parts, MentionText(seg, bot, f)), imgs |-> imgs]
      [] seg.type = "image" ->
           [parts |-> parts,
            imgs  |-> IF Truthy(ImageFile(seg)) THEN Push(imgs, ImageFile(seg)) ELSE imgs]
      [] seg.type \in {"record", "video"} ->
           [parts |-> Push(parts, <<"[unsupported media]">>), imgs |-> imgs]
      [] seg.type = "face" -> [parts |-> Push(parts, <<"[face]">>), imgs |-> imgs]
      [] seg.type \in {"reply", "button", "node"} -> [parts |-> parts, imgs |-> imgs]
      [] OTHER -> [parts |-> Push(parts, <<"<Bot.String>">>), imgs |-> imgs]

\* line 345: the text payload
TextPayload(parts) == Trim(Join(parts))

-----------------------------------------------------------------------------
(* The send primitives, lines 355-435 *)

\* outcomes of a POST: the backend answers sent, answers not sent, or the
\* request fails
PostOutcomes == {"sent", "notsent", "error"}

StartsWith(ref, prefix) == ref.str # <<>> /\ Head(ref.str) = prefix

\* sendImage, lines 378-417: what the reference needs before the POST:
\* nothing (the data is at hand), a download, or a file read
Resolution(ref) ==
    IF ref.kind = "buffer" THEN "none"
    ELSE IF ref.kind = "object" THEN (IF ref.hasBuffer THEN "none" ELSE "path")
    ELSE IF StartsWith(ref, "base64://") THEN "none"
    ELSE IF StartsWith(ref, "http://") \/ StartsWith(ref, "https://") THEN "download"
    ELSE IF StartsWith(ref, "file://") THEN "file"
    ELSE "path"

\* an entry of the log of primitive calls
SendEntry(c, kind, to, payload, status) ==
    [call |-> c, kind |-> kind, to |-> to, payload |-> payload, status |-> status]

InFlight == {"resolving", "posting"}

-----------------------------------------------------------------------------
(* sendMsgSmart as a stack machine: one frame per invocation in progress *)

\* the frame of sendMsgSmart(to, msg) at its entry
NewFrame(to, msg) ==
    [to |-> to, msg |-> msg, pc |-> "start", segs |-> <<>>, i |-> 1, j |-> 0,
     parts |-> <<>>, imgs |-> <<>>, k |-> 1, e |-> 0]

Top(stack) == stack[Len(stack)]
Pop(stack) == SubSeq(stack, 1, Len(stack) - 1)
SetTop(stack, f) == [stack EXCEPT ![Len(stack)] = f]

\* mutant: the children are taken from the last to the first
NextChildReversed(seg, j) == seg.data[Len(seg.data) - j]

\* line 335: for (const node of seg.data), the child after j children are done
NextChild(seg, j) == seg.data[j + 1]

\* Runs call c from its stack until its top frame waits for I/O or it returns:
\* every primitive call is appended to the log when it is issued.
RECURSIVE Run(_, _, _, _, _)
Run(c, stack, log, bot, f) ==
    IF stack = <<>> THEN [stack |-> stack, log |-> log]
    ELSE LET fr == Top(stack) IN
    CASE fr.pc = "start" ->
           \* line 305: a string goes to sendText as it is
           IF fr.msg.form = "string"
           THEN [stack |-> SetTop(stack, [fr EXCEPT !.pc = "sendStr", !.e = Len(log) + 1]),
                 log   |-> Append(log, SendEntry(c, "text", fr.to, fr.msg.text, "posting"))]
           \* line 306: a single segment becomes an array of one
           ELSE Run(c, SetTop(stack, [fr EXCEPT !.pc = "loop",
                       !.segs = IF fr.msg.form = "array" THEN fr.msg.segs ELSE <<fr.msg.seg>>]),
                    log, bot, f)
      [] fr.pc = "loop" ->
           IF fr.i > Len(fr.segs)
           THEN \* lines 345-346
                LET text == TextPayload(fr.parts) IN
                IF text # <<>>
                THEN [stack |-> SetTop(stack, [fr EXCEPT !.pc = "sendText", !.e = Len(log) + 1]),
                      log   |-> Append(log, SendEntry(c, "text", fr.to, text, "posting"))]
                ELSE Run(c, SetTop(stack, [fr EXCEPT !.pc = "images"]), log, bot, f)
           ELSE LET seg == fr.segs[fr.i] IN
                IF seg.type = "node" /\ seg.isArray /\ fr.j < Len(seg.data)
                THEN \* lines 335-337: the next child, awaited
                     Run(c, Append(SetTop(stack, [fr EXCEPT !.j = fr.j + 1]),
                                   NewFrame(fr.to, InnerMessage(NextChild(seg, fr.j)))),
                         log, bot, f)
                ELSE LET r == Collect(seg, fr.parts, fr.imgs, bot, f)
                     IN  Run(c, SetTop(stack, [fr EXCEPT !.i = fr.i + 1, !.j = 0,
                                                         !.parts = r.parts, !.imgs = r.imgs]),
                             log, bot, f)
      [] fr.pc = "images" ->
           \* lines 349-351
           IF fr.k > Len(fr.imgs)
           THEN Run(c, Pop(stack), log, bot, f)
           ELSE LET ref == fr.imgs[fr.k] IN
                IF Resolution(ref) = "none"
                THEN [stack |-> SetTop(stack, [fr EXCEPT !.pc = "imgPost", !.e = Len(log) + 1]),
                      log   |-> Append(log, SendEntry(c, "image", fr.to, ref, "posting"))]
                ELSE [stack |-> SetTop(stack, [fr EXCEPT !.pc = "imgResolve", !.e = Len(log) + 1]),
                      log   |-> Append(log, SendEntry(c, "image", fr.to, ref, "resolving"))]
      [] OTHER -> [stack |-> stack, log |-> log]

\* the outcomes that are failures: the backend answers without sent, the request
\* throws, the reference cannot be fetched or read
Failures == {"notsent", "error", "unreadable"}

\* mutant: a reference that cannot be read is not caught
CatchesOnlyPost(pc, outcome) == pc # "imgResolve"

\* the try blocks of sendText (356-369) and sendImage (374-434, 408-415): every
\* await of the primitives lies inside one, so no outcome leaves them as a throw
Catches(pc, outcome) == pc \in {"sendStr", "sendText", "imgResolve", "imgPost"}

\* The I/O the top frame of the stack waits for ends with the given outcome:
\* a POST with one of PostOutcomes, a download or read with "read" or "unreadable".
\* An outcome that is a failure and is not caught rejects the whole call.
Resume(c, stack, log, outcome, bot, f) ==
    LET fr == Top(stack) IN
    IF outcome \in Failures /\ ~Catches(fr.pc, outcome)
    THEN [stack |-> <<>>, log |-> [log EXCEPT ![fr.e].status = "threw"]]
    ELSE
    CASE fr.pc = "sendStr" ->
           Run(c, Pop(stack), [log EXCEPT ![fr.e].status = outcome], bot, f)
      [] fr.pc = "sendText" ->
           Run(c, SetTop(stack, [fr EXCEPT !.pc = "images"]),
               [log EXCEPT ![fr.e].status = outcome], bot, f)
      [] fr.pc = "imgResolve" ->
           IF outcome = "read"
           THEN [stack |-> SetTop(stack, [fr EXCEPT !.pc = "imgPost"]),
                 log   |-> [log EXCEPT ![fr.e].status = "posting"]]
           ELSE Run(c, SetTop(stack, [fr EXCEPT !.pc = "images", !.k = fr.k + 1]),
                    [log EXCEPT ![fr.e].status = outcome], bot, f)
      [] fr.pc = "imgPost" ->
           Run(c, SetTop(stack, [fr EXCEPT !.pc = "images", !.k = fr.k + 1]),
               [log EXCEPT ![fr.e].status = outcome], bot, f)

OutcomesOf(pc) == IF pc = "imgResolve" THEN {"read", "unreadable"} ELSE PostOutcomes

-----------------------------------------------------------------------------
(* WebSocket frames the backend may push *)

Malformed == [json |-> FALSE]

Json(d) == [json |-> TRUE, data |-> d]

Db(chat, talker, chatDisplay, talkerDisplay, isSelf, parsed, content) ==
    Json([type |-> "db_message", chat |-> chat, talker |-> talker,
          chat_display |-> chatDisplay, talker_display |-> talkerDisplay,
          is_self |-> isSelf, parsed |-> parsed, content |-> content])

Listen(sender, from, content) ==
    Json([type |-> "listen_message", sender |-> sender, from |-> from, content |-> content])

Sent(to, verified) == Json([type |-> "sent", to |-> to, verified |-> verified])

Frames ==
    {Malformed, Sent(NameAl, TRUE), Listen(NameAl, NameAl, <<"yo">>)}
    \cup {Db(G1, U1, NameRoom, NameAl, b, Parsed("Text", [text |-> <<"hi">>]), <<"hi">>) :
            b \in BOOLEAN}
    \cup {Db(U2, U2, Absent, d, b, NoParsed, <<"hello">>) :
            d \in {Absent, NameBo}, b \in BOOLEAN}
    \cup {Db(G1, U2, Absent, Absent, FALSE, Parsed("Voice", [duration_ms |-> 1500]), Absent)}
    \cup {Db(G1, G1, Absent, Absent, FALSE, NoParsed, <<"hey">>)}

IsSelfDb(raw) == raw.json /\ raw.data.type = "db_message" /\ raw.data.is_self

-----------------------------------------------------------------------------
(* Timers and suspended initBot activations *)

\* line 83 and line 104: setTimeout(() => this.connectWs(), RECONNECT_INTERVAL)
ReconnectTimer == [cb |-> "connectWs", delay |-> RECONNECT_INTERVAL, origin |-> 0]

\* lines 122 and 128: setTimeout(() => this.initBot(), 10000); origin is the
\* socket whose open handler started the chain (history only)
PollTimer(o) == [cb |-> "initBot", delay |-> POLL_INTERVAL, origin |-> o]

Poll(pc, o) == [pc |-> pc, origin |-> o]

One(e) == SetToBag({e})

\* number of connectWs calls made so far
Attempts == Len(socks) + failures

\* sockets that are connecting or open
Active == {s \in DOMAIN socks : socks[s] \in {"connecting", "open"}}

\* number of sockets whose close handler has run
Closes == Cardinality({s \in DOMAIN socks : socks[s] = "closed"})

ReconnectPending == CopiesIn(ReconnectTimer, timers)

-----------------------------------------------------------------------------
(* Initial state: the adapter object after construction, lines 27-31 *)

Idle == [c \in {} |-> <<>>]

InitConn ==
    /\ loaded = FALSE
    /\ socks = <<>>
    /\ failures = 0
    /\ timers = EmptyBag
    /\ polls = EmptyBag
    /\ connected = FALSE
    /\ registered = FALSE
    /\ fl = EmptyMap
    /\ gl = EmptyMap
    /\ inUin = FALSE
    /\ step = [op |-> "new"]
    /\ out = <<>>
    /\ calls = Idle
    /\ sends = <<>>

Init == InitConn /\ backend \in BackendStates

-----------------------------------------------------------------------------
(* connectWs, lines 78-110 *)

\* mutant: the catch branch gives up instead of scheduling a retry
AfterThrowGiveUp(tm) == tm

\* the timers after the catch branch of connectWs (lines 81-85)
AfterThrow(tm) == tm (+) One(ReconnectTimer)

\* mutant: the reconnect is scheduled twice for one close
AfterCloseTwice(tm) == tm (+) One(ReconnectTimer) (+) One(ReconnectTimer)

\* mutant: the close handler forgets to schedule the reconnect
AfterCloseNone(tm) == tm

\* the timers after the close handler (line 104)
AfterClose(tm) == tm (+) One(ReconnectTimer)

\* connectWs() called with the pending timers tm; throws: the constructor throws
connectWs(throws, tm) ==
    /\ Attempts < MaxAttempts
    /\ IF throws
       THEN /\ socks' = socks
            /\ failures' = failures + 1
            /\ timers' = AfterThrow(tm)
       ELSE /\ socks' = Append(socks, "connecting")
            /\ failures' = failures
            /\ timers' = tm

\* load(), lines 70-73
Load ==
    /\ ~loaded
    /\ loaded' = TRUE
    /\ \E throws \in BOOLEAN : connectWs(throws, timers)
    /\ step' = [op |-> "load"]
    /\ out' = <<>>
    /\ UNCHANGED <<polls, connected, registered, fl, gl, inUin, backend, calls, sends>>

\* a reconnect timer fires: () => this.connectWs()
ReconnectFire ==
    /\ BagIn(ReconnectTimer, timers)
    /\ \E throws \in BOOLEAN : connectWs(throws, timers (-) One(ReconnectTimer))
    /\ step' = [op |-> "reconnect"]
    /\ out' = <<>>
    /\ UNCHANGED <<loaded, polls, connected, registered, fl, gl, inUin, backend, calls, sends>>

\* "open" handler, lines 87-90: initBot() runs up to its first await (line 118)
WsOpen(s) ==
    /\ socks[s] = "connecting"
    /\ socks' = [socks EXCEPT ![s] = "open"]
    /\ polls' = polls (+) One(Poll("status", s))
    /\ step' = [op |-> "open", sock |-> s]
    /\ out' = <<>>
    /\ UNCHANGED <<loaded, failures, timers, connected, registered, fl, gl, inUin,
                   backend, calls, sends>>

\* mutant: a frame that does not parse is treated as fatal for the socket
WsMessageFatal(s, raw) ==
    /\ socks[s] = "open"
    /\ LET r == OnFrame(raw, connected, registered, fl, gl)
       IN  /\ fl' = r.fl
           /\ gl' = r.gl
           /\ out' = r.out
    /\ IF raw.json
       THEN UNCHANGED <<socks, connected, timers>>
       ELSE /\ socks' = [socks EXCEPT ![s] = "closed"]
            /\ connected' = FALSE
            /\ timers' = timers (+) One(ReconnectTimer)
    /\ step' = [op |-> "message", sock |-> s, frame |-> raw]
    /\ UNCHANGED <<loaded, failures, polls, registered,
                   inUin, backend, calls, sends>>

\* "message" handler, lines 92-99
WsMessage(s, raw) ==
    /\ socks[s] = "open"
    /\ LET r == OnFrame(raw, connected, registered, fl, gl)
       IN  /\ fl' = r.fl
           /\ gl' = r.gl
           /\ out' = r.out
    /\ step' = [op |-> "message", sock |-> s, frame |-> raw]
    /\ UNCHANGED <<loaded, socks, failures, timers, polls, connected, registered,
                   inUin, backend, calls, sends>>

\* "close" handler, lines 101-105; a socket closes once, open or still connecting
WsClose(s) ==
    /\ socks[s] \in {"connecting", "open"}
    /\ socks' = [socks EXCEPT ![s] = "closed"]
    /\ connected' = FALSE
    /\ timers' = AfterClose(timers)
    /\ step' = [op |-> "close", sock |-> s]
    /\ out' = <<>>
    /\ UNCHANGED <<loaded, failures, polls, registered, fl, gl, inUin, backend, calls, sends>>

\* "error" handler, lines 107-109: logs only
WsError(s) ==
    /\ socks[s] \in {"connecting", "open"}
    /\ step' = [op |-> "error", sock |-> s]
    /\ out' = <<>>
    /\ UNCHANGED <<connVars, calls, sends>>

-----------------------------------------------------------------------------
(* initBot, lines 115-198 *)

\* mutant: any answered status counts as logged in
IsLoggedInAny(status) == TRUE

\* line 126: the status is the authenticated sentinel
IsLoggedIn(status) == status = StatusLoggedIn

\* mutant: a missed poll is not retried
AfterPollMissGiveUp(tm, o) == tm

\* lines 120-123 and 126-129: the timers after a poll that fails or is not logged in
AfterPollMiss(tm, o) == tm (+) One(PollTimer(o))

\* the status request of activation p completes (lines 118-133); when the backend
\* is logged in the activation goes on to its second await (line 138)
StatusDone(p) ==
    /\ BagIn(p, polls)
    /\ p.pc = "status"
    /\ IF backend # "down" /\ IsLoggedIn(backend)
       THEN /\ connected' = TRUE
            /\ polls' = (polls (-) One(p)) (+) One(Poll("contacts", p.origin))
            /\ timers' = timers
       ELSE /\ polls' = polls (-) One(p)
            /\ timers' = AfterPollMiss(timers, p.origin)
            /\ UNCHANGED connected
    /\ step' = [op |-> "status", origin |-> p.origin, answer |-> backend]
    /\ out' = <<>>
    /\ UNCHANGED <<loaded, socks, failures, registered, fl, gl, inUin, backend,
                   calls, sends>>

\* a poll timer fires: () => this.initBot(), up to the first await
PollFire(t) ==
    /\ BagIn(t, timers)
    /\ t.cb = "initBot"
    /\ timers' = timers (-) One(t)
    /\ polls' = polls (+) One(Poll("status", t.origin))
    /\ step' = [op |-> "poll", origin |-> t.origin]
    /\ out' = <<>>
    /\ UNCHANGED <<loaded, socks, failures, connected, registered, fl, gl, inUin,
                   backend, calls, sends>>

\* mutant: the connect event is emitted before the session is registered
RegisterLate(contacts) ==
    LET m == BuildMaps(contacts, EmptyMap, EmptyMap)
    IN  [registered |-> TRUE, fl |-> m.fl, gl |-> m.gl,
         out |-> <<ConnectEvent(FALSE, EmptyMap, EmptyMap)>>]

\* mutant: the contact list is merged into the maps of the previous session
RegisterMerge(contacts) ==
    LET m == BuildMaps(contacts, fl, gl)
    IN  [registered |-> TRUE, fl |-> m.fl, gl |-> m.gl, out |-> <<ConnectEvent(TRUE, m.fl, m.gl)>>]

\* lines 145-197 run with the contact list: the session registered and the events emitted
Register(contacts) ==
    LET m == BuildMaps(contacts, EmptyMap, EmptyMap)
    IN  [registered |-> TRUE, fl |-> m.fl, gl |-> m.gl, out |-> <<ConnectEvent(TRUE, m.fl, m.gl)>>]

\* mutant: a failed contacts request registers nothing and is retried after 10 s
ContactsDoneRetry(p, ok, list) ==
    /\ BagIn(p, polls)
    /\ p.pc = "contacts"
    /\ polls' = polls (-) One(p)
    /\ IF ok
       THEN /\ LET r == Register(list)
               IN  /\ registered' = r.registered
                   /\ fl' = r.fl
                   /\ gl' = r.gl
                   /\ out' = r.out
            /\ inUin' = TRUE
            /\ timers' = timers
       ELSE /\ timers' = timers (+) One(PollTimer(p.origin))
            /\ out' = <<>>
            /\ UNCHANGED <<registered, fl, gl, inUin>>
    /\ step' = [op |-> "contacts", origin |-> p.origin, ok |-> ok,
                contacts |-> IF ok THEN list ELSE <<>>]
    /\ UNCHANGED <<loaded, socks, failures, connected, backend, calls, sends>>

\* the contacts request of activation p completes (lines 136-198); ok = FALSE is
\* the catch branch, which leaves the list empty
ContactsDone(p, ok, list) ==
    /\ BagIn(p, polls)
    /\ p.pc = "contacts"
    /\ polls' = polls (-) One(p)
    /\ LET r == Register(IF ok THEN list ELSE <<>>)
       IN  /\ registered' = r.registered
           /\ fl' = r.fl
           /\ gl' = r.gl
           /\ out' = r.out
    /\ inUin' = TRUE
    /\ step' = [op |-> "contacts", origin |-> p.origin, ok |-> ok,
                contacts |-> IF ok THEN list ELSE <<>>]
    /\ UNCHANGED <<loaded, socks, failures, timers, connected, backend,
                   calls, sends>>

\* the backend logs in, logs out, goes down or comes back
BackendChange(b) ==
    /\ backend # b
    /\ backend' = b
    /\ step' = [op |-> "backend"]
    /\ out' = <<>>
    /\ UNCHANGED <<loaded, socks, failures, timers, polls, connected, registered,
                   fl, gl, inUin, calls, sends>>

-----------------------------------------------------------------------------

NextConn ==
    \/ Load
    \/ ReconnectFire
    \/ \E s \in DOMAIN socks : WsOpen(s)
    \/ \E s \in DOMAIN socks : WsClose(s)
    \/ \E s \in DOMAIN socks : WsError(s)
    \/ \E p \in BagToSet(polls) : StatusDone(p)
    \/ \E t \in BagToSet(timers) : PollFire(t)
    \/ \E p \in BagToSet(polls), ok \in BOOLEAN, list \in Snapshots : ContactsDone(p, ok, list)
    \/ \E b \in BackendStates : BackendChange(b)

Next ==
    \/ NextConn
    \/ \E s \in DOMAIN socks, raw \in Frames : WsMessage(s, raw)

Spec == Init /\ [][Next]_vars

-----------------------------------------------------------------------------
(* Outbound messages drawn as inputs *)

ImgX == BufferRef("X")
ImgY == StringRef(<<"base64://", "Y">>)
ImgP == StringRef(<<"/tmp/p.png">>)

Ta   == SegText(<<"a">>, Absent)
Tb   == SegText(Absent, <<"b">>)
Tws  == SegText(<<Space>>, Absent)
AtU1 == SegAt(U1, Absent)
IX   == SegImage(ImgX, NoRef, NoRef, NoRef)
IY   == SegImage(NoRef, ImgY, NoRef, NoRef)
IP   == SegImage(NoRef, NoRef, ImgP, NoRef)
INone == SegImage(NoRef, StringRef(Absent), NoRef, NoRef)

FlatSegs == {Ta, Tb, Tws, AtU1, IX, IP, INone, SegPlain("face")}

\* segments that stand for a token or for nothing
TokenSegs == {Ta, Tws, SegPlain("record"), SegPlain("video"), SegPlain("face"),
              SegPlain("reply"), SegPlain("button")}

AtU2   == SegAt(Absent, U2)
AtNone == SegAt(Absent, Absent)

M1 == MsgString(<<"m1">>)

\* forwarded nodes: three children; a child that sends nothing; nested nodes;
\* a node whose data is no array; a child with neither message nor content
NodeMessages ==
    { MsgArray(<<Ta, SegNode(TRUE, <<Node(M1, NoMsg), Node(NoMsg, MsgArray(<<Tb, IX>>))>>), IY>>),
      MsgArray(<<SegNode(TRUE, <<Node(M1, NoMsg), Node(NoMsg, MsgArray(<<Tb, IX>>)),
                                 Node(MsgObject(IP), M1)>>)>>),
      MsgArray(<<SegNode(TRUE, <<Node(MsgArray(<<Tws>>), NoMsg), Node(M1, NoMsg)>>),
                 SegNode(TRUE, <<Node(MsgObject(Ta), NoMsg)>>)>>),
      MsgArray(<<SegNode(TRUE, <<Node(MsgArray(<<SegNode(TRUE, <<Node(M1, NoMsg),
                                                                   Node(MsgObject(IX), NoMsg)>>),
                                                  Tb>>), NoMsg),
                                 Node(MsgArray(<<IY>>), NoMsg)>>)>>),
      MsgArray(<<SegNode(FALSE, <<>>), Ta>>),
      MsgObject(SegNode(TRUE, <<Node(NoMsg, NoMsg)>>)) }

SegSeqs(n) == UNION {[1..m -> FlatSegs] : m \in 0..n}

Messages ==
    {MsgArray(segs) : segs \in SegSeqs(MaxSegs)}
    \cup {MsgArray(<<Ta, IX, Tb, IY>>), MsgArray(<<Tws, AtU1, IY, INone, Tws>>)}
    \cup {MsgString(<<"a">>), MsgString(<<Space>>), MsgObject(Ta), MsgObject(IP)}
    \cup {MsgString(Absent), MsgString(<<Space, "a", Space>>), MsgObject(Tws)}
    \cup NodeMessages
    \cup {MsgArray(segs) : segs \in UNION {[1..m -> TokenSegs] : m \in 1..MaxSegs}}
    \cup {MsgArray(<<IX, SegPlain("record"), SegPlain("reply"), Ta, SegPlain("face")>>),
          MsgArray(<<Ta, AtU1>>), MsgArray(<<AtU1, Ta>>), MsgArray(<<AtU2, Ta, AtNone, Tb>>),
          MsgObject(AtU1)}

Recipients == {NameAl, NameRoom}

Callers == {"c1"}

-----------------------------------------------------------------------------
(* Outbound specification: each caller invokes sendMsgSmart once, with the *)
(* adapter either fresh or Ready on an open socket                         *)

Request(to, msg) == [to |-> to, msg |-> msg, state |-> "new", stack |-> <<>>]

ReadyOn(list) ==
    /\ loaded = TRUE
    /\ socks = <<"open">>
    /\ failures = 0
    /\ timers = EmptyBag
    /\ polls = EmptyBag
    /\ connected = TRUE
    /\ registered = TRUE
    /\ fl = BuildMaps(list, EmptyMap, EmptyMap).fl
    /\ gl = BuildMaps(list, EmptyMap, EmptyMap).gl
    /\ inUin = TRUE
    /\ backend = StatusLoggedIn

Fresh ==
    /\ loaded = FALSE
    /\ socks = <<>>
    /\ failures = 0
    /\ timers = EmptyBag
    /\ polls = EmptyBag
    /\ connected = FALSE
    /\ registered = FALSE
    /\ fl = EmptyMap
    /\ gl = EmptyMap
    /\ inUin = FALSE
    /\ backend = StatusWaiting

InitCompose ==
    /\ Fresh \/ \E list \in Snapshots : Len(list) = 2 /\ ReadyOn(list)
    /\ calls \in [Callers -> {Request(to, msg) : to \in Recipients, msg \in Messages}]
    /\ sends = <<>>
    /\ step = [op |-> "new"]
    /\ out = <<>>

\* caller c invokes sendMsgSmart(to, msg): it runs to its first await
Begin(c) ==
    /\ calls[c].state = "new"
    /\ LET r == Run(c, <<NewFrame(calls[c].to, calls[c].msg)>>, sends, registered, fl)
       IN  /\ calls' = [calls EXCEPT ![c].stack = r.stack,
                                     ![c].state = IF r.stack = <<>> THEN "done" ELSE "running"]
           /\ sends' = r.log
    /\ step' = [op |-> "compose", call |-> c]
    /\ out' = <<>>
    /\ UNCHANGED connVars

\* the request or read that call c awaits completes, and c runs to its next await
IoDone(c, outcome) ==
    /\ calls[c].state = "running"
    /\ outcome \in OutcomesOf(Top(calls[c].stack).pc)
    /\ LET r == Resume(c, calls[c].stack, sends, outcome, registered, fl)
       IN  /\ calls' = [calls EXCEPT ![c].stack = r.stack,
                                     ![c].state = IF r.stack = <<>> THEN "done" ELSE "running"]
           /\ sends' = r.log
    /\ step' = [op |-> "io", call |-> c, outcome |-> outcome]
    /\ out' = <<>>
    /\ UNCHANGED connVars

NextCompose ==
    \/ \E c \in Callers : Begin(c)
    \/ \E c \in Callers, outcome \in PostOutcomes \cup {"read", "unreadable"} : IoDone(c, outcome)

SpecCompose == InitCompose /\ [][NextCompose]_vars

-----------------------------------------------------------------------------
(* pickFriend / pickGroup, lines 440-478 *)

\* mutant: a miss yields no record fields
pickFriendStrict(user_id, bot, f) ==
    LET hit == bot /\ user_id \in DOMAIN f
    IN  [id   |-> user_id,
         name |-> IF hit THEN f[user_id].nickname ELSE Absent,
         to   |-> IF hit THEN Or(f[user_id].nickname, user_id) ELSE Absent]

\* lines 440-456: Bot[self_id]?.fl?.get(user_id) || { user_id, nickname: user_id };
\* to is the recipient sendMsg and sendFile use
pickFriend(user_id, bot, f) ==
    LET nickname == IF bot /\ user_id \in DOMAIN f THEN f[user_id].nickname ELSE user_id
    IN  [id |-> user_id, name |-> nickname, to |-> Or(nickname, user_id)]

\* lines 458-478
pickGroup(group_id, bot, g) ==
    LET group_name == IF bot /\ group_id \in DOMAIN g THEN g[group_id].group_name ELSE group_id
    IN  [id |-> group_id, name |-> group_name, to |-> Or(group_name, group_id)]

\* identifiers the host may ask for: known ones and strangers
PickIds == {U1, U2, G1, <<"wxid_z">>, <<"room9", "@chatroom">>}

\* the host calls pickFriend or pickGroup
Pick(kind, id) ==
    /\ step' = [op |-> "pick", kind |-> kind, id |-> id]
    /\ out' = <<IF kind = "friend" THEN pickFriend(id, registered, fl)
                ELSE pickGroup(id, registered, gl)>>
    /\ UNCHANGED <<connVars, calls, sends>>

\* the directory before registration, or after a snapshot load on an open socket
InitPick ==
    /\ Fresh \/ \E list \in Snapshots : ReadyOn(list)
    /\ calls = <<>>
    /\ sends = <<>>
    /\ step = [op |-> "new"]
    /\ out = <<>>

NextPick ==
    \/ \E kind \in {"friend", "group"}, id \in PickIds : Pick(kind, id)
    \/ \E s \in DOMAIN socks, raw \in Frames : WsMessage(s, raw)

SpecPick == InitPick /\ [][NextPick]_vars

-----------------------------------------------------------------------------
(* parseMsgContent applied to the payloads a frame may carry *)

MaxMs == 2100      \* longest voice duration explored, in milliseconds

ParsedTypes == {"Text", "Image", "Voice", "Video", "Emoji", "App", "System", "Quote"}

ParsedData ==
    {NoData, [text |-> <<"hi">>], [title |-> <<"T">>, desc |-> <<"D">>], [desc |-> <<"D">>]}

ParsedInputs ==
    {NoParsed, Parsed("", NoData)}
    \cup {Parsed(t, d) : t \in ParsedTypes, d \in ParsedData}
    \cup {Parsed("Voice", [duration_ms |-> ms]) : ms \in -2..MaxMs}

\* the content field: missing, empty, or a text
RawInputs == {Undefined, Absent, <<"hello">>}

InitParse ==
    /\ Fresh
    /\ calls = <<>>
    /\ sends = <<>>
    /\ step = [op |-> "new"]
    /\ out = <<>>

\* parseMsgContent(parsed, rawContent) is called and returns
Normalize(parsed, raw) ==
    /\ step.op = "new"
    /\ step' = [op |-> "parse", parsed |-> parsed, content |-> raw]
    /\ out' = <<parseMsgContent(parsed, raw)>>
    /\ UNCHANGED <<connVars, calls, sends>>

NextParse == \E parsed \in ParsedInputs, raw \in RawInputs : Normalize(parsed, raw)

SpecParse == InitParse /\ [][NextParse]_vars

-----------------------------------------------------------------------------
(* Two host-triggered replies racing: two callers invoke sendMsgSmart, each *)
(* suspended at its awaits while the other runs                             *)

Racers == {"c1", "c2"}

RaceMessages ==
    { MsgArray(<<Ta, IX, IY>>), MsgArray(<<SegNode(TRUE, <<Node(M1, NoMsg)>>), Tb>>) }

InitRace ==
    /\ \E list \in Snapshots : Len(list) = 2 /\ ReadyOn(list)
    /\ calls \in [Racers -> {Request(to, msg) : to \in Recipients, msg \in RaceMessages}]
    /\ calls["c1"].to = NameRoom
    /\ sends = <<>>
    /\ step = [op |-> "new"]
    /\ out = <<>>

NextRace ==
    \/ \E c \in Racers : Begin(c)
    \/ \E c \in Racers, outcome \in PostOutcomes \cup {"read", "unreadable"} : IoDone(c, outcome)

SpecRace == InitRace /\ [][NextRace]_vars

-----------------------------------------------------------------------------
(* Specification in which no status poll is ever answered with the         *)
(* authenticated state                                                     *)

NotLoggedIn == BackendStates \ {StatusLoggedIn}

InitNoLogin == InitConn /\ backend \in NotLoggedIn

NextNoLogin ==
    \/ Load
    \/ ReconnectFire
    \/ \E s \in DOMAIN socks : WsOpen(s)
    \/ \E s \in DOMAIN socks : WsClose(s)
    \/ \E s \in DOMAIN socks : WsError(s)
    \/ \E p \in BagToSet(polls) : StatusDone(p)
    \/ \E t \in BagToSet(timers) : PollFire(t)
    \/ \E b \in NotLoggedIn : BackendChange(b)
    \/ \E s \in DOMAIN socks, raw \in Frames : WsMessage(s, raw)

SpecNoLogin == InitNoLogin /\ [][NextNoLogin]_vars

-----------------------------------------------------------------------------
(* Specification with the scheduling the runtime guarantees: a pending     *)
(* timer fires, and a request that was issued is answered or fails         *)

Origins == 1..MaxAttempts

Fairness ==
    /\ WF_vars(ReconnectFire)
    /\ \A o \in Origins : WF_vars(PollFire(PollTimer(o)))
    /\ \A o \in Origins : WF_vars(StatusDone(Poll("status", o)))
    /\ \A o \in Origins :
         WF_vars(\E ok \in BOOLEAN, list \in Snapshots : ContactsDone(Poll("contacts", o), ok, list))

LiveSpec == Init /\ [][NextConn]_vars /\ Fairness

-----------------------------------------------------------------------------
(* Claims about the connection manager *)

Newest == Len(socks)

\* C1: once load() has been called, at most one socket is connecting or open at
\* any moment; a further connectWs is pending (as a reconnect timer) only while
\* no socket is active, so it is never invoked while another socket is active.
C1_OneActiveSocket ==
    /\ Cardinality(Active) + ReconnectPending <= 1
    /\ Active \subseteq {Newest}

C1_Witness == Len(socks) = 3 /\ socks[1] = "closed" /\ socks[2] = "closed" /\ socks[3] = "open"

\* C2: the connected flag is true only while the most recently created socket is
\* open, and it becomes true only by a poll that was started for that socket and
\* reported the authenticated state.
C2_ReadyOnlyWhileNewestOpen ==
    [][connected' =>
         /\ Newest' > 0
         /\ socks'[Newest'] = "open"
         /\ ~connected => (step'.op = "status" /\ step'.origin = Newest')]_vars

C4_NeverReadyWithoutLogin ==
    /\ ~connected
    /\ ~registered
    /\ ~inUin
    /\ \A i \in DOMAIN out : out[i].type # "connect"

C4_Witness ==
    /\ step.op = "status" /\ step.answer = "down"
    /\ BagIn(PollTimer(1), timers) /\ BagIn(PollTimer(2), timers)

PollChainActive ==
    \E o \in Origins : BagIn(PollTimer(o), timers) \/ BagIn(Poll("status", o), polls)

\* C5: a poll that fails or reports another status schedules exactly one further
\* poll after 10 seconds; so if the backend from some time on always reports the
\* authenticated state, a manager that is polling eventually becomes Ready.
C5_PollingNeverGivesUp ==
    /\ [][(step'.op = "status" /\ step'.answer # StatusLoggedIn) =>
            /\ timers' = timers (+) One(PollTimer(step'.origin))
            /\ PollTimer(step'.origin).delay = 10000
            /\ connected' = connected]_vars
    /\ (<>[](backend = StatusLoggedIn)) =>
         [](PollChainActive => <>(connected /\ <>(registered /\ step.op = "contacts")))

C5_Witness ==
    /\ step.op = "status" /\ step.answer = StatusLoggedIn /\ step.origin = 2
    /\ connected /\ BagIn(PollTimer(1), timers)

\* C6: after every socket close and every construction failure a further
\* connection attempt is eventually made, however many came before (within the
\* attempts explored): the n-th end of an attempt leads to attempt n+1.
C6_AlwaysRetries ==
    \A n \in 1..(MaxAttempts - 1) : (Closes + failures = n) ~> (Attempts > n)

C6_Witness == Attempts = MaxAttempts /\ failures >= 1 /\ Closes >= 1

AwaitingContacts(ps) == {o \in Origins : BagIn(Poll("contacts", o), ps)}

\* C7: a connect event is emitted only by the step that loaded the contact
\* snapshot and registered the session, and it carries that session with the
\* maps built from that snapshot; a poll that reports the authenticated state
\* starts exactly one contact fetch, whose completion emits connect exactly once.
C7_ConnectAfterRegistration ==
    [][/\ (\E i \in DOMAIN out' : out'[i].type = "connect") =>
            /\ step'.op = "contacts"
            /\ registered' /\ inUin'
            /\ fl' = BuildMaps(step'.contacts, EmptyMap, EmptyMap).fl
            /\ gl' = BuildMaps(step'.contacts, EmptyMap, EmptyMap).gl
            /\ out' = <<ConnectEvent(TRUE, fl', gl')>>
       /\ (step'.op = "status" /\ step'.answer = StatusLoggedIn) =>
            polls' = (polls (-) One(Poll("status", step'.origin)))
                       (+) One(Poll("contacts", step'.origin))
       /\ step'.op = "contacts" =>
            /\ CopiesIn(Poll("contacts", step'.origin), polls) = 1
            /\ polls' = polls (-) One(Poll("contacts", step'.origin))
            /\ Len(out') = 1 /\ out'[1].type = "connect"
       /\ step'.op \notin {"status", "contacts"} =>
            AwaitingContacts(polls') = AwaitingContacts(polls)]_vars

C7_Witness ==
    /\ step.op = "contacts" /\ step.ok /\ Len(step.contacts) = 3 /\ step.origin = 2
    /\ registered /\ U2 \in DOMAIN fl /\ out = <<ConnectEvent(TRUE, fl, gl)>>

\* C8: a frame that fails JSON parsing emits no event and changes nothing of the
\* adapter: directory, connected flag, sockets and timers stay as they were, so
\* later frames on the socket are handled as if it had not come.
C8_MalformedFrameDiscarded ==
    [][(step'.op = "message" /\ ~step'.frame.json) =>
         /\ out' = <<>>
         /\ UNCHANGED <<loaded, socks, failures, timers, polls, connected, registered,
                        fl, gl, inUin>>
         /\ socks'[step'.sock] = "open"]_vars

C8_Witness ==
    /\ step.op = "message" /\ ~step.frame.json
    /\ connected /\ registered /\ fl # EmptyMap /\ gl # EmptyMap

\* C9: a db_message frame with the self-authored flag emits no host event and
\* leaves the contact directory unchanged, in every state.
C9_SelfMessageDropped ==
    [][(step'.op = "message" /\ IsSelfDb(step'.frame)) =>
         (out' = <<>> /\ fl' = fl /\ gl' = gl)]_vars

C9_Witness ==
    /\ step.op = "message" /\ IsSelfDb(step.frame)
    /\ connected /\ registered /\ step.frame.data.chat = U2 /\ U2 \notin DOMAIN fl

-----------------------------------------------------------------------------
(* Claims about the outbound composer *)

\* the calls of the send primitives made by call c, in the order they were issued
LogOf(c) == SelectSeq(sends, LAMBDA e : e.call = c)

\* what a send is: which primitive, to whom, with what
Shape(e) == [kind |-> e.kind, to |-> e.to, payload |-> e.payload]

Shapes(log) == [i \in DOMAIN log |-> Shape(log[i])]

IsPrefix(a, b) == Len(a) <= Len(b) /\ a = SubSeq(b, 1, Len(a))

\* a message that is an array of text, mention and image segments only
IsTextMentionImage(msg) ==
    msg.form = "array" /\ \A i \in DOMAIN msg.segs : msg.segs[i].type \in {"text", "at", "image"}

\* the text a text or mention segment stands for, nothing for an image
TextOf(seg) ==
    IF seg.type = "text" THEN Or(seg.text, seg.dtext)
    ELSE IF seg.type = "at" THEN MentionText(seg, registered, fl)
    ELSE <<>>

RECURSIVE ConcatText(_)
ConcatText(segs) == IF segs = <<>> THEN <<>> ELSE TextOf(Head(segs)) \o ConcatText(Tail(segs))

\* the sends the claim expects for a recipient and a segment array: the image
\* sends are those of every image segment, or of those that carry a reference
ExpectedSends(to, segs, everyImage) ==
    LET text == Trim(ConcatText(segs))
        imgs == SelectSeq(segs, LAMBDA g : g.type = "image" /\ (everyImage \/ Truthy(ImageFile(g))))
    IN  (IF text # <<>> THEN <<[kind |-> "text", to |-> to, payload |-> text]>> ELSE <<>>)
        \o [i \in DOMAIN imgs |-> [kind |-> "image", to |-> to, payload |-> ImageFile(imgs[i])]]

\* the sends of call c are issued one after the other and, once c has returned,
\* are exactly the expected ones
SendsAre(c, expected) ==
    /\ IsPrefix(Shapes(LogOf(c)), expected)
    /\ \A i \in DOMAIN LogOf(c) : i < Len(LogOf(c)) => LogOf(c)[i].status \notin InFlight
    /\ calls[c].state = "done" =>
         /\ Shapes(LogOf(c)) = expected
         /\ \A i \in DOMAIN LogOf(c) : LogOf(c)[i].status \notin InFlight

\* C10 as stated: for a message of text, mention and image segments, one text
\* send with the trimmed concatenation (if non-empty), then one image send per
\* image segment, in encountered order, each issued after the previous ended.
C10_OneSendPerImageSegment ==
    \A c \in Callers :
        IsTextMentionImage(calls[c].msg) /\ calls[c].state # "new" =>
            SendsAre(c, ExpectedSends(calls[c].to, calls[c].msg.segs, TRUE))

\* C10 amended: as above, with one image send per image segment that carries a
\* non-empty reference; an image segment without reference causes no send.
C10_TextThenImagesInOrder ==
    \A c \in Callers :
        IsTextMentionImage(calls[c].msg) /\ calls[c].state # "new" =>
            SendsAre(c, ExpectedSends(calls[c].to, calls[c].msg.segs, FALSE))

C10_Witness ==
    /\ calls["c1"].msg = MsgArray(<<Ta, IX, Tb, IY>>)
    /\ calls["c1"].state = "done"
    /\ Shapes(sends) = << [kind |-> "text", to |-> NameRoom, payload |-> <<"a", "b">>],
                          [kind |-> "image", to |-> NameRoom, payload |-> ImgX],
                          [kind |-> "image", to |-> NameRoom, payload |-> ImgY] >>
    /\ \A i \in DOMAIN sends : sends[i].status = "sent"

-----------------------------------------------------------------------------
(* What the contract of the composer says an invocation sends *)

\* the segments of a message that is not a string (line 306)
Segs(msg) == IF msg.form = "array" THEN msg.segs ELSE <<msg.seg>>

\* the token a segment contributes to the text: its text, its mention, the
\* placeholder of unsupported media or of a face, nothing for an image, a reply,
\* a button or a forwarded node
TokenOf(seg) ==
    CASE seg.type \in {"<string>"} -> seg.text
      [] seg.type \in {"text", "at"} -> TextOf(seg)
      [] seg.type \in {"record", "video"} -> <<"[unsupported media]">>
      [] seg.type = "face" -> <<"[face]">>
      [] seg.type \in {"image", "reply", "button", "node"} -> <<>>
      [] OTHER -> <<"<Bot.String>">>

RECURSIVE ConcatTokens(_)
ConcatTokens(segs) ==
    IF segs = <<>> THEN <<>> ELSE TokenOf(Head(segs)) \o ConcatTokens(Tail(segs))

\* the text payload of the invocation itself
OwnText(segs) == Trim(ConcatTokens(segs))

\* the sends of the invocation itself: its text, then its images
OwnSends(to, segs) ==
    LET imgs == SelectSeq(segs, LAMBDA g : g.type = "image" /\ Truthy(ImageFile(g)))
    IN  (IF OwnText(segs) # <<>>
         THEN <<[kind |-> "text", to |-> to, payload |-> OwnText(segs)]>> ELSE <<>>)
        \o [i \in DOMAIN imgs |-> [kind |-> "image", to |-> to, payload |-> ImageFile(imgs[i])]]

RECURSIVE AllSends(_, _)
RECURSIVE NodeSends(_, _)
RECURSIVE ChildSends(_, _)

\* the sends of the invocations on the children m1..mk of a forwarded node,
\* one child after the other
ChildSends(to, nodes) ==
    IF nodes = <<>> THEN <<>>
    ELSE AllSends(to, InnerMessage(Head(nodes))) \o ChildSends(to, Tail(nodes))

\* the sends of the children of every forwarded node of a segment array
NodeSends(to, segs) ==
    IF segs = <<>> THEN <<>>
    ELSE (IF Head(segs).type = "node" /\ Head(segs).isArray
          THEN ChildSends(to, Head(segs).data) ELSE <<>>)
         \o NodeSends(to, Tail(segs))

\* every send an invocation causes
AllSends(to, msg) ==
    IF msg.form = "string" THEN <<[kind |-> "text", to |-> to, payload |-> msg.text]>>
    ELSE NodeSends(to, Segs(msg)) \o OwnSends(to, Segs(msg))

\* at most the last send of call c is still in flight
OneAtATime(c) ==
    \A i \in DOMAIN LogOf(c) : i < Len(LogOf(c)) => LogOf(c)[i].status \notin InFlight

HasNode(msg) == msg.form # "string" /\ \E i \in DOMAIN Segs(msg) : Segs(msg)[i].type = "node"

\* C11: the text payload of an invocation is the first send the invocation
\* causes, and no image send comes before it, also when the message holds
\* forwarded nodes.
C11_TextIsFirstSend ==
    \A c \in Callers :
        (calls[c].msg.form # "string" /\ OwnText(Segs(calls[c].msg)) # <<>>
           /\ LogOf(c) # <<>>) =>
            Shape(LogOf(c)[1]) = [kind |-> "text", to |-> calls[c].to,
                                  payload |-> OwnText(Segs(calls[c].msg))]

\* C12: the children m1..mk of a forwarded node are composed to the recipient of
\* the node in the order m1..mk: the sends are those of m1, then those of m2, and
\* so on, and a send is issued only after every earlier one has ended.
C12_ChildrenInOrder ==
    \A c \in Callers :
        HasNode(calls[c].msg) /\ calls[c].state # "new" =>
            LET kids == NodeSends(calls[c].to, Segs(calls[c].msg)) IN
            /\ OneAtATime(c)
            /\ IsPrefix(Shapes(LogOf(c)), kids) \/ IsPrefix(kids, Shapes(LogOf(c)))
            /\ calls[c].state = "done" => IsPrefix(kids, Shapes(LogOf(c)))

C12_Witness ==
    /\ calls["c1"].msg = MsgArray(<<SegNode(TRUE, <<Node(M1, NoMsg),
                                                    Node(NoMsg, MsgArray(<<Tb, IX>>)),
                                                    Node(MsgObject(IP), M1)>>)>>)
    /\ calls["c1"].state = "done"
    /\ Shapes(sends) = << [kind |-> "text", to |-> NameAl, payload |-> <<"m1">>],
                          [kind |-> "text", to |-> NameAl, payload |-> <<"b">>],
                          [kind |-> "image", to |-> NameAl, payload |-> ImgX],
                          [kind |-> "image", to |-> NameAl, payload |-> ImgP] >>

\* C13: every text payload sent is trimmed and not empty, whatever the form of
\* the message.
C13_TextPayloadTrimmed ==
    \A i \in DOMAIN sends :
        sends[i].kind = "text" =>
            sends[i].payload # <<>> /\ Trim(sends[i].payload) = sends[i].payload

\* C14: a send that fails does not throw and does not stop the invocation: the
\* step in which the failure returns issues the next send of the invocation, or
\* completes the invocation when the failed send was its last one.
C14_FailureDoesNotStop ==
    [][\A c \in Callers :
         (step'.op = "io" /\ step'.call = c /\ step'.outcome \in Failures) =>
            LET all == AllSends(calls[c].to, calls[c].msg) IN
            /\ \A i \in DOMAIN sends' : sends'[i].status # "threw"
            /\ sends'[Len(sends)].status = step'.outcome
            /\ IF Len(sends) = Len(all)
               THEN calls'[c].state = "done" /\ Shapes(sends') = all
               ELSE /\ calls'[c].state = "running"
                    /\ Len(sends') = Len(sends) + 1
                    /\ IsPrefix(Shapes(sends'), all)]_vars

C14_Witness ==
    /\ calls["c1"].msg = MsgArray(<<Ta, IP, IX>>)
    /\ calls["c1"].state = "done"
    /\ [i \in DOMAIN sends |-> sends[i].status] = <<"error", "unreadable", "notsent">>

\* C15: two concurrent invocations are not kept apart: a step of one leaves the
\* other where it is, whatever it is waiting for, and their sends interleave;
\* the sends of each invocation are still issued in its own order, one at a
\* time (its text before its images, its images in encountered order).
C15_OwnOrderUnderRace ==
    [][\A c \in Racers :
         /\ step'.call # c => calls'[c] = calls[c] /\ LogOf(c)' = LogOf(c)
         /\ OneAtATime(c)'
         /\ IsPrefix(Shapes(LogOf(c))', AllSends(calls[c].to, calls[c].msg))
         /\ calls'[c].state = "done" =>
              Shapes(LogOf(c))' = AllSends(calls[c].to, calls[c].msg)]_vars

\* the sends of the two invocations alternate, to one recipient, and the second
\* send of each is in flight at the same time
C15_Witness ==
    /\ Len(sends) = 4
    /\ [i \in 1..4 |-> sends[i].call] = <<"c1", "c2", "c1", "c2">>
    /\ \A i \in 1..4 : sends[i].to = NameRoom
    /\ sends[3].status \in InFlight /\ sends[4].status \in InFlight

IsTokenMessage(msg) ==
    /\ msg.form # "string"
    /\ \A i \in DOMAIN Segs(msg) :
         Segs(msg)[i].type \in {"text", "at", "image", "record", "video", "face",
                                "reply", "button"}

OnlyDropped(msg) ==
    msg.form # "string" /\ \A i \in DOMAIN Segs(msg) : Segs(msg)[i].type \in {"reply", "button"}

\* C16: record, video and face segments put their placeholder into the text at
\* their position among the text parts, reply and button segments put nothing:
\* a message of reply and button segments only causes no send.
C16_PlaceholdersInline ==
    \A c \in Callers :
        calls[c].state # "new" =>
            /\ IsTokenMessage(calls[c].msg) =>
                 SendsAre(c, OwnSends(calls[c].to, Segs(calls[c].msg)))
            /\ OnlyDropped(calls[c].msg) => LogOf(c) = <<>> /\ calls[c].state = "done"

C16_Witness ==
    /\ calls["c1"].msg = MsgArray(<<IX, SegPlain("record"), SegPlain("reply"), Ta,
                                    SegPlain("face")>>)
    /\ calls["c1"].state = "done"
    /\ Shapes(sends) = << [kind |-> "text", to |-> NameAl,
                           payload |-> <<"[unsupported media]", "a", "[face]">>],
                          [kind |-> "image", to |-> NameAl, payload |-> ImgX] >>

\* the name the directory gives for an identifier, the identifier itself when
\* it has no entry or no session is registered
DirectoryName(uid) ==
    IF registered /\ uid \in DOMAIN fl THEN fl[uid].nickname ELSE uid

\* a mention as the claim renders it
Rendered(seg) ==
    IF seg.type = "at"
    THEN <<"@">> \o DirectoryName(Or(seg.qq, seg.dqq)) \o <<MentionSep>>
    ELSE Or(seg.text, seg.dtext)

RECURSIVE ConcatRendered(_)
ConcatRendered(segs) ==
    IF segs = <<>> THEN <<>> ELSE Rendered(Head(segs)) \o ConcatRendered(Tail(segs))

\* an array of mentions and of text segments without blanks
IsMentionMessage(msg) ==
    /\ msg.form # "string"
    /\ \A i \in DOMAIN Segs(msg) : Segs(msg)[i] \in {Ta, Tb, AtU1, AtU2}
    /\ \E i \in DOMAIN Segs(msg) : Segs(msg)[i].type = "at"

\* C17: in the text payload every mention stands at its position as "@", the
\* name of the directory (or the raw identifier) and the separator glyph.
C17_MentionRendered ==
    \A c \in Callers :
        IsMentionMessage(calls[c].msg) /\ calls[c].state # "new" =>
            /\ LogOf(c) # <<>>
            /\ LogOf(c)[1].kind = "text"
            /\ LogOf(c)[1].payload = ConcatRendered(Segs(calls[c].msg))

-----------------------------------------------------------------------------
(* Claims about the contact directory *)

\* C18: every key of the groups map contains the group marker and no key of
\* the friends map contains it, in every reachable state.
C18_MarkerClassifies ==
    /\ \A k \in DOMAIN gl : Includes(k, Marker)
    /\ \A k \in DOMAIN fl : ~Includes(k, Marker)

\* a frame whose sender is the group itself was processed, with both maps filled
C18_Witness ==
    /\ step.op = "message"
    /\ step.frame = Db(G1, G1, Absent, Absent, FALSE, NoParsed, <<"hey">>)
    /\ registered /\ connected
    /\ DOMAIN gl = {G1} /\ DOMAIN fl = {U1, U2}

\* the identifiers a contact list yields
SnapshotIds(list) == {ContactId(list[i]) : i \in DOMAIN list} \ {Absent}

\* the last entry of the list with the identifier
LastWith(list, id) ==
    list[CHOOSE i \in DOMAIN list :
            /\ ContactId(list[i]) = id
            /\ \A j \in DOMAIN list : ContactId(list[j]) = id => j <= i]

\* C19: the step that loads a snapshot leaves in the friends and groups maps
\* exactly the entries of the list that have an identifier (username, else
\* wxid, else display_name), each in the map the marker chooses with the name
\* of its entry; nothing of the previous maps remains unless the list has it.
C19_SnapshotReplaces ==
    [][step'.op = "contacts" =>
         LET list == step'.contacts IN
         /\ DOMAIN fl' = {id \in SnapshotIds(list) : ~Includes(id, Marker)}
         /\ DOMAIN gl' = {id \in SnapshotIds(list) : Includes(id, Marker)}
         /\ \A id \in DOMAIN fl' :
              /\ fl'[id].user_id = id
              /\ fl'[id].nickname = Or(LastWith(list, id).display_name, LastWith(list, id).username)
         /\ \A id \in DOMAIN gl' :
              /\ gl'[id].group_id = id
              /\ gl'[id].group_name =
                   Or(LastWith(list, id).display_name, LastWith(list, id).username)]_vars

\* a later initialization loaded the list of three entries, one without
\* identifier: the group learned before is gone
C19_Witness ==
    /\ step.op = "contacts" /\ step.ok /\ step.origin = 2
    /\ step.contacts = << Contact(Absent, U2, Absent, NameBo),
                          Contact(Absent, Absent, Absent, Absent),
                          Contact(U1, Absent, Absent, Absent) >>
    /\ DOMAIN fl = {U1, U2} /\ gl = EmptyMap
    /\ fl[U1].nickname = U1

\* the chat and talker identifiers a frame carries
Carried(raw) ==
    IF raw.json /\ raw.data.type = "db_message" THEN {raw.data.chat, raw.data.talker} ELSE {}

\* C20: processing a frame removes no entry and changes at most the entries of
\* the chat and talker identifiers of the frame; between two snapshot loads no
\* other step changes the maps, so their key sets only grow.
C20_FramesOnlyAdd ==
    [][/\ step'.op = "message" =>
            /\ DOMAIN fl \subseteq DOMAIN fl'
            /\ DOMAIN gl \subseteq DOMAIN gl'
            /\ \A k \in DOMAIN fl' \ Carried(step'.frame) : k \in DOMAIN fl /\ fl'[k] = fl[k]
            /\ \A k \in DOMAIN gl' \ Carried(step'.frame) : k \in DOMAIN gl /\ gl'[k] = gl[k]
       /\ step'.op \notin {"message", "contacts"} => fl' = fl /\ gl' = gl]_vars

\* a frame added a friend and updated nothing else
C20_Witness ==
    /\ step.op = "message"
    /\ step.frame = Db(U2, U2, Absent, NameBo, FALSE, NoParsed, <<"hello">>)
    /\ DOMAIN fl = {U1, U2} /\ DOMAIN gl = {G1}
    /\ fl[U2].nickname = NameBo /\ fl[U1].nickname = NameAl /\ gl[G1].group_name = NameRoom

-----------------------------------------------------------------------------
(* Claims about the inbound normalizer *)

IsVoice(st) == st.op = "parse" /\ st.parsed.present /\ st.parsed.type = "Voice"

HasDuration(st) == "duration_ms" \in DOMAIN st.parsed.data

\* the three cases of the voice label
SecondsCase(st) == HasDuration(st) /\ st.parsed.data.duration_ms >= 1000
MillisCase(st) ==
    HasDuration(st) /\ st.parsed.data.duration_ms > 0 /\ st.parsed.data.duration_ms < 1000
BareCase(st) == ~HasDuration(st) \/ st.parsed.data.duration_ms <= 0

\* C22: a voice payload is labelled with the whole seconds from 1000 ms on, with
\* the milliseconds between 0 and 1000 ms, and with the bare label when the
\* duration is absent or not positive; exactly one of the three cases applies.
C22_VoiceLabel ==
    IsVoice(step) =>
        /\ Cardinality({i \in 1..3 : <<SecondsCase(step), MillisCase(step), BareCase(step)>>[i]}) = 1
        /\ SecondsCase(step) =>
             out[1].display =
                <<"[voice ", ToString(step.parsed.data.duration_ms \div 1000), "s]">>
        /\ MillisCase(step) =>
             out[1].display = <<"[voice ", ToString(step.parsed.data.duration_ms), "ms]">>
        /\ BareCase(step) => out[1].display = <<"[voice]">>

C22_Witness ==
    /\ IsVoice(step) /\ HasDuration(step) /\ step.parsed.data.duration_ms = 1999
    /\ out[1].display = <<"[voice ", "1", "s]">>

Recognized == {"Text", "Image", "Voice", "Video", "Emoji", "App", "System"}

\* C23: every payload is normalized to one display string and one list of a
\* single text segment with that string as text; a payload without type or with
\* an unrecognized type gives the raw content, the empty string when absent.
C23_OneTextSegment ==
    step.op = "parse" =>
        /\ Len(out) = 1
        /\ out[1].display # Undefined
        /\ Len(out[1].segments) = 1
        /\ out[1].segments[1].type = "text"
        /\ out[1].segments[1].text = out[1].display
        /\ (~step.parsed.present \/ step.parsed.type \notin Recognized) =>
             out[1].display = (IF step.content = Undefined THEN Absent ELSE step.content)

-----------------------------------------------------------------------------
(* Claims about directory lookups and the frames' envelopes *)

\* the lookup of the last pick found an entry
Hit(st) ==
    registered /\ st.id \in DOMAIN (IF st.kind = "friend" THEN fl ELSE gl)

\* C21: pickFriend and pickGroup return a record for every identifier in every
\* state, also with no session registered; on a miss the record has the
\* identifier as id and as display name, and a send through it goes to the
\* identifier.
C21_LookupNeverFails ==
    step.op = "pick" =>
        /\ Len(out) = 1
        /\ out[1].id = step.id
        /\ out[1].to # Absent
        /\ ~Hit(step) => out[1].name = step.id /\ out[1].to = step.id

\* a stranger is looked up while a session with other contacts is registered
C21_Witness ==
    /\ step.op = "pick" /\ step.kind = "friend" /\ step.id = <<"wxid_z">>
    /\ registered /\ DOMAIN fl = {U1, U2}
    /\ out = <<[id |-> <<"wxid_z">>, name |-> <<"wxid_z">>, to |-> <<"wxid_z">>]>>

IsMessageEvent(e) == e.type \in {"message.private", "message.group"}

\* the frame of a step is a db_message not written by the account itself
IsForeignDb(st) ==
    st.op = "message" /\ st.frame.json /\ st.frame.data.type = "db_message"
    /\ ~st.frame.data.is_self

IsListen(st) == st.op = "message" /\ st.frame.json /\ st.frame.data.type = "listen_message"

\* C24: a db_message not written by the account is emitted as message.group
\* with the chat as group id exactly when the chat contains the marker, as
\* message.private without group id otherwise; a listen_message is emitted as
\* message.private.
C24_GroupByChatMarker ==
    [][connected =>
         /\ IsForeignDb(step') =>
              /\ Len(out') = 1
              /\ IF Includes(step'.frame.data.chat, Marker)
                 THEN out'[1].type = "message.group" /\ out'[1].group_id = step'.frame.data.chat
                 ELSE out'[1].type = "message.private" /\ out'[1].group_id = Absent
         /\ IsListen(step') =>
              Len(out') = 1 /\ out'[1].type = "message.private" /\ out'[1].group_id = Absent]_vars

C24_Witness ==
    /\ IsForeignDb(step) /\ step.frame.data.chat = G1 /\ step.frame.data.talker = U1
    /\ Len(out) = 1 /\ out[1].type = "message.group" /\ out[1].group_id = G1
    /\ out[1].user_id = U1

\* C25: while the connected flag is false a frame of any type emits no event
\* and leaves both maps as they are.
C25_DroppedWhileNotReady ==
    [][(step'.op = "message" /\ ~connected) => out' = <<>> /\ fl' = fl /\ gl' = gl]_vars

\* after a close, on the next socket and before its poll is answered, a frame
\* of a stranger arrives and is dropped
C25_Witness ==
    /\ step.op = "message" /\ step.sock = 2
    /\ step.frame = Db(U2, U2, Absent, NameBo, FALSE, NoParsed, <<"hello">>)
    /\ ~connected /\ registered /\ socks[1] = "closed"
    /\ out = <<>> /\ U2 \notin DOMAIN fl

\* C26: every message event is emitted after the registration of the session:
\* it carries a registered session, and no initialization that has reached the
\* authenticated state is still waiting for its snapshot.
C26_MessagesAfterRegistration ==
    [][\A i \in DOMAIN out' :
         IsMessageEvent(out'[i]) =>
            out'[i].bot /\ registered' /\ AwaitingContacts(polls') = {}]_vars

\* the login-poll chains pending or in flight: scheduled retries and outstanding
\* status or contacts requests
PollChains == BagCardinality(polls) + (BagCardinality(timers) - ReconnectPending)

\* C27: at most one login-poll chain is pending or in flight at any time.
C27_OnePollChain == PollChains <= 1

\* C28: a db_message without talker display name leaves the friend entry stored
\* for its sender as it is, and one without chat display name leaves the group
\* entry stored for its chat as it is.
C28_NoNameNoChange ==
    [][(connected /\ IsForeignDb(step')) =>
         LET d == step'.frame.data
             user_id == Or(d.talker, d.chat)
         IN  /\ (d.talker_display = Absent /\ user_id \in DOMAIN fl) => fl'[user_id] = fl[user_id]
             /\ (d.chat_display = Absent /\ d.chat \in DOMAIN gl) => gl'[d.chat] = gl[d.chat]]_vars

\* C29: the reply of every message event goes to a recipient that is not empty:
\* the chat (its identifier or name) for a group message, the talker (its
\* identifier or name) for a private db_message, the user_id of the event for a
\* listen_message.
C29_ReplyTargetsConversation ==
    [][\A i \in DOMAIN out' :
         IsMessageEvent(out'[i]) =>
            /\ out'[i].replyTo # Absent
            /\ IsListen(step') => out'[i].replyTo = out'[i].user_id
            /\ (IsForeignDb(step') /\ out'[i].type = "message.group") =>
                 out'[i].replyTo \in {step'.frame.data.chat, step'.frame.data.chat_display}
            /\ (IsForeignDb(step') /\ out'[i].type = "message.private") =>
                 out'[i].replyTo \in {step'.frame.data.talker,
                                      step'.frame.data.talker_display}]_vars

\* C30: when the contacts request fails the flag stays as the poll set it, the
\* session is registered with empty maps, the connect event is emitted, and
\* nothing is scheduled or requested again.
C30_SnapshotFailureStillReady ==
    [][(step'.op = "contacts" /\ ~step'.ok) =>
         /\ connected' = connected
         /\ registered' /\ inUin'
         /\ fl' = EmptyMap /\ gl' = EmptyMap
         /\ out' = <<ConnectEvent(TRUE, EmptyMap, EmptyMap)>>
         /\ timers' = timers
         /\ polls' = polls (-) One(Poll("contacts", step'.origin))]_vars

C30_Witness ==
    /\ step.op = "contacts" /\ ~step.ok /\ step.origin = 1
    /\ socks = <<"open">> /\ connected /\ registered /\ inUin
    /\ fl = EmptyMap /\ gl = EmptyMap /\ polls = EmptyBag /\ timers = EmptyBag
    /\ out = <<ConnectEvent(TRUE, EmptyMap, EmptyMap)>>

====
